---- MODULE Spec2Model ----
(***************************************************************************)
(* Model of scripts/open_rds.py (get_session_file) and scripts/mouse.py    *)
(* (class Mouse).                                                          *)
(*                                                                         *)
(* Python values are modelled as records of one shape so that any two of   *)
(* them can be compared:                                                   *)
(*   - an argument of get_session_file is [t, i, s]: t is the Python type, *)
(*     i the value of an int (or the value in tenths of a float), s the    *)
(*     characters of a str;                                                *)
(*   - a numpy array is [shape, flat]: its shape and its elements in       *)
(*     row-major order;                                                    *)
(*   - a pandas DataFrame is [index, columns, values], values by row.      *)
(* The data directory is not part of the sources: every path               *)
(* data/session<n>.rds that the loader asks for is taken to be readable.   *)
(***************************************************************************)
EXTENDS Integers, Sequences, FiniteSets, TLC

VARIABLES
    pandas2ri_active,   \* rpy2's process-wide pandas conversion switch
    cran_mirror,        \* the R session's CRAN mirror index (0: not chosen)
    call,               \* the call made last, with its argument and outcome
    log,                \* the calls made so far: what each read and returned
    session,            \* Mouse.session of the object under construction
    self,               \* the attributes of that Mouse object
    pc                  \* the line of Mouse.__init__ reached for that object

vars == <<pandas2ri_active, cran_mirror, call, log, session, self, pc>>

(***************************************************************************)
(* Bounds                                                                  *)
(***************************************************************************)
MaxCalls == 2          \* calls recorded in log
MaxStrLen == 2         \* characters of a str argument
MaxSessionArg == 21    \* largest int argument tried
MaxTrials == 2         \* trials of a session
MaxNeurons == 2        \* neurons of a session
MaxBins == 2           \* time bins of a trial
MaxSpike == 1          \* largest spike count of one neuron in one bin

(***************************************************************************)
(* Sequence helpers                                                        *)
(***************************************************************************)
RECURSIVE SumSeq(_)
SumSeq(s) == IF s = <<>> THEN 0 ELSE Head(s) + SumSeq(Tail(s))

RECURSIVE Concat(_)
Concat(ss) == IF ss = <<>> THEN <<>> ELSE Head(ss) \o Concat(Tail(ss))

Range(s) == {s[i] : i \in DOMAIN s}

Indices(s, v) == {i \in DOMAIN s : s[i] = v}

(***************************************************************************)
(* Python's int()                                                          *)
(***************************************************************************)
Chars == {"1", "9", "a", "."}

Digit == [c \in {"0", "1", "2", "3", "4", "5", "6", "7", "8", "9"} |->
            CASE c = "0" -> 0 [] c = "1" -> 1 [] c = "2" -> 2 [] c = "3" -> 3
              [] c = "4" -> 4 [] c = "5" -> 5 [] c = "6" -> 6 [] c = "7" -> 7
              [] c = "8" -> 8 [] c = "9" -> 9]

RECURSIVE DigitsValue(_)
DigitsValue(s) ==
    IF s = <<>> THEN 0
    ELSE 10 * DigitsValue(SubSeq(s, 1, Len(s) - 1)) + Digit[s[Len(s)]]

IsDigits(s) == s # <<>> /\ \A k \in DOMAIN s : s[k] \in DOMAIN Digit

\* Division rounding toward zero, as int(float) truncates.
Trunc(a, b) == IF a >= 0 THEN a \div b ELSE -((-a) \div b)

\* int(x): [exc |-> the exception raised or "", v |-> the value].
PyInt(x) ==
    CASE x.t = "int" -> [exc |-> "", v |-> x.i]
      [] x.t = "float" -> [exc |-> "", v |-> Trunc(x.i, 10)]
      [] x.t = "nan" -> [exc |-> "ValueError", v |-> 0]
      [] x.t = "inf" -> [exc |-> "OverflowError", v |-> 0]
      [] x.t = "str" ->
            IF IsDigits(x.s) THEN [exc |-> "", v |-> DigitsValue(x.s)]
            ELSE [exc |-> "ValueError", v |-> 0]
      [] OTHER -> [exc |-> "TypeError", v |-> 0]

IntArg(n) == [t |-> "int", i |-> n, s |-> <<>>]
FloatArg(tenths) == [t |-> "float", i |-> tenths, s |-> <<>>]
StrArg(s) == [t |-> "str", i |-> 0, s |-> s]
NoneArg == [t |-> "NoneType", i |-> 0, s |-> <<>>]
NanArg == [t |-> "nan", i |-> 0, s |-> <<>>]
InfArg == [t |-> "inf", i |-> 0, s |-> <<>>]

IntArgs == {IntArg(n) : n \in -1 .. MaxSessionArg}
FloatArgs == {FloatArg(x) : x \in {-5, 5, 10, 37, 190, 199, 200}}
StrArgs == {StrArg(s) : s \in UNION {[1 .. k -> Chars] : k \in 0 .. MaxStrLen}}
Args == IntArgs \cup FloatArgs \cup StrArgs \cup {NoneArg, NanArg, InfArg}

(***************************************************************************)
(* scripts/open_rds.py                                                     *)
(***************************************************************************)
DigitChar == <<"0", "1", "2", "3", "4", "5", "6", "7", "8", "9">>

\* str(n) of a non-negative int, as its decimal characters.
RECURSIVE PyStr(_)
PyStr(n) ==
    IF n < 10 THEN <<DigitChar[n + 1]>>
    ELSE PyStr(n \div 10) \o <<DigitChar[(n % 10) + 1]>>

\* f"data/session{str(session)}.rds"
file_path(n) == <<"data/session">> \o PyStr(n) \o <<".rds">>

\* readRDS(file_path): the R object of that file, handed to Python in the
\* form the conversion in force at the time of the call produces.
readRDS(path, active) ==
    [kind |-> "data", path |-> path,
     form |-> IF active THEN "python" ELSE "robject"]

\* pandas2ri.rpy2py(data): an R object is converted, a Python object is kept.
rpy2py(data) == [data EXCEPT !.form = "python"]

EmptyList == [kind |-> "list", path |-> <<>>, form |-> "python"]
NoValue == [kind |-> "none", path |-> <<>>, form |-> ""]

MsgNotInteger == "Session must be an integer"
MsgInvalidNumber == "Invalid session number. Must be between 1 and 19."

\* OutOfRange with the upper limit one too low.
OutOfRange_18(v) == v < 1 \/ v > 18

\* session < 1 or session > 19
OutOfRange(v) == v < 1 \/ v > 19

\* The whole of get_session_file(x), called with the conversion switch and
\* the CRAN mirror as they are: what it prints, which files it reads, what
\* it returns or raises, and the switch and mirror it leaves behind.
get_session_file(x, active, mirror) ==
    LET c == PyInt(x) IN
    IF c.exc = "ValueError" THEN
        [outcome |-> "return", printed |-> <<MsgNotInteger>>, read |-> <<>>,
         data |-> NoValue, result |-> EmptyList,
         active |-> active, mirror |-> mirror]
    ELSE IF c.exc # "" THEN
        [outcome |-> c.exc, printed |-> <<>>, read |-> <<>>,
         data |-> NoValue, result |-> NoValue,
         active |-> active, mirror |-> mirror]
    ELSE IF OutOfRange(c.v) THEN
        [outcome |-> "return", printed |-> <<MsgInvalidNumber>>, read |-> <<>>,
         data |-> NoValue, result |-> EmptyList,
         active |-> active, mirror |-> mirror]
    ELSE
        [outcome |-> "return", printed |-> <<>>,
         read |-> <<file_path(c.v)>>,
         data |-> readRDS(file_path(c.v), active),
         result |-> rpy2py(readRDS(file_path(c.v), active)),
         active |-> TRUE, mirror |-> 1]

\* The parameters of get_session_file and the positional arguments that
\* Mouse.__init__ passes to it.
get_session_file_params == <<"session">>
init_call_args(arg, test) == <<arg, [t |-> "bool", i |-> IF test THEN 1 ELSE 0, s |-> <<>>]>>

\* Python binds positional arguments to parameters before the body runs.
Binds(params, args) == Len(args) <= Len(params)

(***************************************************************************)
(* numpy arrays                                                            *)
(***************************************************************************)
Scalar(v) == [shape |-> <<>>, flat |-> <<v>>]

\* np.array(list of scalars)
Array1(flat) == [shape |-> <<Len(flat)>>, flat |-> flat]

\* np.array(list of equally long lists)
Array2(rows) == [shape |-> <<Len(rows), Len(rows[1])>>, flat |-> Concat(rows)]

\* a[i], i counted from 1
Item(a, i) ==
    IF Len(a.shape) = 1 THEN Scalar(a.flat[i])
    ELSE Array1(SubSeq(a.flat, (i - 1) * a.shape[2] + 1, i * a.shape[2]))

\* len(a)
PyLen(a) == a.shape[1]

Greater(a, b) == [shape |-> a.shape, flat |-> [i \in DOMAIN a.flat |-> a.flat[i] > b.flat[i]]]

Less(a, b) == [shape |-> a.shape, flat |-> [i \in DOMAIN a.flat |-> a.flat[i] < b.flat[i]]]

\* (a == 0) & (b == 0)
BothZero(a, b) ==
    [shape |-> a.shape, flat |-> [i \in DOMAIN a.flat |-> a.flat[i] = 0 /\ b.flat[i] = 0]]

\* np.where(c, x, y) for a scalar x and an array y of c's shape
np_where(c, x, y) ==
    [shape |-> c.shape, flat |-> [i \in DOMAIN c.flat |-> IF c.flat[i] THEN x ELSE y.flat[i]]]

\* the scalar v broadcast to the shape of c
Full(c, v) == [shape |-> c.shape, flat |-> [i \in DOMAIN c.flat |-> v]]

(***************************************************************************)
(* scripts/mouse.py: the fields read straight from the session             *)
(***************************************************************************)
\* A field of the session (session[0], [1], [2]) is an outer array with one
\* element per trial; an element is [type, items]: a numpy array or a list.
Items(field) == [i \in DOMAIN field |-> field[i].items]

\* The two branches shared by _get_contrast_left, _get_contrast_right and
\* _get_feedback_type: the elements are iterated when the first is an array
\* and handed to np.array as they are otherwise.
FlattenField(field) ==
    IF field[1].type = "ndarray" THEN Array1(Concat(Items(field)))
    ELSE Array2(Items(field))

get_contrast_left(s) == FlattenField(s.contrast_left)

get_contrast_right(s) == FlattenField(s.contrast_right)

get_feedback_type(s) == FlattenField(s.feedback_type)

get_name(s) == s.mouse_name[1]

\* datetime.strptime(text, "%Y-%m-%d").date() of a text of that format
get_date(s) ==
    LET text == s.date_exp[1] IN
    [year |-> DigitsValue(SubSeq(text, 1, 4)),
     month |-> DigitsValue(SubSeq(text, 6, 7)),
     day |-> DigitsValue(SubSeq(text, 9, 10))]

\* TimeBinLabel numbering the bins from 0.
TimeBinLabel_from0(i) == <<"Time Bin ">> \o PyStr(i)

\* f"Time Bin {i+1}" and f"Trial {idx + 1}", for i and idx counted from 0
TimeBinLabel(i) == <<"Time Bin ">> \o PyStr(i + 1)

TrialLabel(idx) == <<"Trial ">> \o PyStr(idx + 1)

\* pd.DataFrame(trial, index=pd.Series(session[4]), dtype=int) with its
\* columns renamed: the rows are the neurons, labelled by brain area.
SpikesFrame(trial, brain_area) ==
    [index |-> brain_area,
     columns |-> [j \in 1 .. Len(trial[1]) |-> TimeBinLabel(j - 1)],
     values |-> trial]

\* The dict of _get_spikes, in insertion order.
get_spikes(s) ==
    [keys |-> [t \in DOMAIN s.spks |-> TrialLabel(t - 1)],
     vals |-> [t \in DOMAIN s.spks |-> SpikesFrame(s.spks[t], s.brain_area)]]

\* dict.get(key) for a key of the dict
DictGet(d, key) == d.vals[CHOOSE i \in DOMAIN d.keys : d.keys[i] = key]

\* _get_time: one row per trial, the trials' bin centres; every trial of a
\* session has the same number of bins, so that pd.concat adds rows only.
get_time(s) ==
    [index |-> [t \in DOMAIN s.time |-> TrialLabel(t - 1)],
     columns |-> [j \in 1 .. Len(s.time[1]) |-> TimeBinLabel(j - 1)],
     values |-> s.time]

\* get_decisions with its first two comparisons exchanged.
get_decisions_swapped(contrast_left, contrast_right) ==
    np_where(Less(contrast_left, contrast_right), 1,
        np_where(Greater(contrast_left, contrast_right), 2,
            np_where(BothZero(contrast_left, contrast_right), 3,
                Full(contrast_left, 4))))

get_decisions(contrast_left, contrast_right) ==
    np_where(Greater(contrast_left, contrast_right), 1,
        np_where(Less(contrast_left, contrast_right), 2,
            np_where(BothZero(contrast_left, contrast_right), 3,
                Full(contrast_left, 4))))

(***************************************************************************)
(* pandas, as _get_model_features uses it.  A cell of the feature table is *)
(* [k, num, den, s]: a number num/den, a text s, or NaN.                   *)
(***************************************************************************)
Num(v) == [k |-> "num", num |-> v, den |-> 1, s |-> <<>>]
Ratio(n, d) == [k |-> "num", num |-> n, den |-> d, s |-> <<>>]
Text(s) == [k |-> "str", num |-> 0, den |-> 1, s |-> <<s>>]
NaN == [k |-> "nan", num |-> 0, den |-> 1, s |-> <<>>]
ValueErrorCell == [k |-> "ValueError", num |-> 0, den |-> 1, s |-> <<>>]

\* The cell of a Python value given as an argument (an int, a str, ...).
ArgCell(x) == [k |-> x.t, num |-> x.i, den |-> 1, s |-> x.s]

\* The brain areas of the sessions, in the order Python sorts their names.
AreaOrder == <<"ACA", "root">>

RECURSIVE SumAt(_, _)
SumAt(values, S) ==
    IF S = {} THEN 0
    ELSE LET i == CHOOSE i \in S : TRUE IN values[i] + SumAt(values, S \ {i})

\* df.T
Transpose(df) ==
    [index |-> df.columns,
     columns |-> df.index,
     values |-> [j \in DOMAIN df.columns |->
                    [r \in DOMAIN df.index |-> df.values[r][j]]]]

\* df.sum(): the Series of the column totals, indexed by the column labels
ColumnSums(df) ==
    [index |-> df.columns,
     values |-> [c \in DOMAIN df.columns |->
                    SumSeq([r \in DOMAIN df.index |-> df.values[r][c]])]]

\* GroupByMean adding up the entries of a label without dividing.
GroupBySum(series) ==
    LET keys == SelectSeq(AreaOrder, LAMBDA a : a \in Range(series.index)) IN
    [index |-> keys,
     values |-> [g \in DOMAIN keys |->
                    Ratio(SumAt(series.values, Indices(series.index, keys[g])), 1)]]

\* series.groupby(level=0).mean(): one entry per distinct label, the labels
\* sorted, each the mean of the entries that carry the label
GroupByMean(series) ==
    LET keys == SelectSeq(AreaOrder, LAMBDA a : a \in Range(series.index)) IN
    [index |-> keys,
     values |-> [g \in DOMAIN keys |->
                    LET members == Indices(series.index, keys[g]) IN
                    Ratio(SumAt(series.values, members), Cardinality(members))]]

\* pd.DataFrame(series).T: one row, the labels as columns
RowFrame(series) == [columns |-> series.index, values |-> <<series.values>>]

\* The cells a value gives to a column of nrows rows: a scalar is repeated,
\* an array must have one entry per row.
ColumnCells(val, nrows) ==
    IF val.shape = <<>> THEN [r \in 1 .. nrows |-> val.flat[1]]
    ELSE IF val.shape = <<nrows>> THEN [r \in 1 .. nrows |-> val.flat[r]]
    ELSE [r \in 1 .. nrows |-> ValueErrorCell]

\* df[name] = val: an existing column is overwritten, a new one is appended
SetColumn(df, name, val) ==
    LET cells == ColumnCells(val, Len(df.values)) IN
    IF name \in Range(df.columns) THEN
        [columns |-> df.columns,
         values |-> [r \in DOMAIN df.values |->
                        [c \in DOMAIN df.columns |->
                            IF df.columns[c] = name THEN cells[r]
                            ELSE df.values[r][c]]]]
    ELSE
        [columns |-> Append(df.columns, name),
         values |-> [r \in DOMAIN df.values |-> Append(df.values[r], cells[r])]]

\* The rows of df laid out on the columns cols, NaN where df has no such column.
Reindex(df, cols) ==
    [r \in DOMAIN df.values |->
        [c \in DOMAIN cols |->
            IF cols[c] \in Range(df.columns)
            THEN df.values[r][CHOOSE k \in DOMAIN df.columns : df.columns[k] = cols[c]]
            ELSE NaN]]

\* pd.concat([a, b], axis=0, ignore_index=True): the columns of a, then those
\* only b has; the rows of a, then those of b.
pd_concat(a, b) ==
    LET cols == a.columns \o SelectSeq(b.columns, LAMBDA c : c \notin Range(a.columns)) IN
    [columns |-> cols, values |-> Reindex(a, cols) \o Reindex(b, cols)]

\* df.fillna(v)
fillna(df, v) ==
    [columns |-> df.columns,
     values |-> [r \in DOMAIN df.values |->
                    [c \in DOMAIN df.columns |->
                        IF df.values[r][c].k = "nan" THEN Num(v) ELSE df.values[r][c]]]]

\* The cells of df that fillna replaces, each as <<row, column label>>.
NaNCells(df) ==
    {<<rc[1], df.columns[rc[2]]>> :
        rc \in {x \in (DOMAIN df.values) \X (DOMAIN df.columns) :
                    df.values[x[1]][x[2]].k = "nan"}}

\* An array of numbers as an array of cells.
AsCells(a) == [shape |-> a.shape, flat |-> [i \in DOMAIN a.flat |-> Num(a.flat[i])]]

EmptyFrame == [columns |-> <<>>, values |-> <<>>]

MetaColumns == <<"Mouse", "Session", "Trial", "Decision", "Feedback">>

(***************************************************************************)
(* Mouse._get_model_features                                               *)
(***************************************************************************)
\* TrialNumber giving the position counted from 0.
TrialNumber_from0(idx) == idx

\* idx + 1, the number of the trial at position idx of the loop
TrialNumber(idx) == idx + 1

\* Lines 172-182: the one-row table of trial idx (counted from 0).
TrialRow(obj, idx) ==
    LET spikes_per_neuron == Transpose(DictGet(obj.spikes, obj.list_of_trials[idx + 1]))
        avg_spike_per_area == GroupByMean(ColumnSums(spikes_per_neuron))
        df0 == RowFrame(avg_spike_per_area)
        df1 == SetColumn(df0, "Feedback", AsCells(Item(obj.feedback_type, idx + 1)))
        df2 == SetColumn(df1, "Decision", AsCells(Item(obj.decisions, idx + 1)))
        df3 == SetColumn(df2, "Mouse", Scalar(Text(obj.mouse_name)))
        df4 == SetColumn(df3, "Session", Scalar(ArgCell(obj.session_number)))
    IN  SetColumn(df4, "Trial", Scalar(Num(TrialNumber(idx))))

\* Lines 168-190: the loop over list_of_trials, from trial idx on; acc is
\* [frame, filled]: the table so far and the cells fillna has replaced.
RECURSIVE FeatureLoop(_, _, _)
FeatureLoop(obj, idx, acc) ==
    IF idx >= Len(obj.list_of_trials) THEN acc
    ELSE LET joined == pd_concat(acc.frame, TrialRow(obj, idx)) IN
         FeatureLoop(obj, idx + 1,
                     [frame |-> fillna(joined, 0),
                      filled |-> acc.filled \cup NaNCells(joined)])

\* Lines 193-203: the columns reordered and the two category columns.
get_model_features(obj) ==
    LET acc == FeatureLoop(obj, 0, [frame |-> EmptyFrame, filled |-> {}])
        features == acc.frame
        cols == MetaColumns \o SelectSeq(features.columns, LAMBDA c : c \notin Range(MetaColumns))
    IN  [columns |-> cols,
         values |-> Reindex(features, cols),
         category |-> {"Decision", "Feedback"},
         filled |-> acc.filled]

(***************************************************************************)
(* Session values: what a session file holds once converted                *)
(***************************************************************************)
\* The stimulus contrasts 0, 0.25, 0.5 and 1, in hundredths.
ContrastLevels == {0, 25, 50, 100}

\* 1 for success and -1 for failure
Feedbacks == {-1, 1}

\* Sessions 1 and 18 hold lists where the other sessions hold arrays.
ElementType(sn) == IF sn \in {1, 18} THEN "list" ELSE "ndarray"

Wrap(sn, values) ==
    [i \in DOMAIN values |-> [type |-> ElementType(sn), items |-> <<values[i]>>]]

MouseOfSession(sn) == IF sn <= 1 THEN "Cori" ELSE "Forssmann"

DateOfSession(sn) == <<"2", "0", "1", "6", "-", "1", "2", "-">> \o PyStr(10 + sn)

\* The spike counts of n trials of Len(rate) neurons over b bins: neuron r
\* starts from rate[r], and the counts differ from bin to bin and from trial
\* to trial.
SampleSpikes(n, rate, b) ==
    [t \in 1 .. n |->
        [r \in DOMAIN rate |->
            [j \in 1 .. b |-> (rate[r] + (j - 1) * t) % (MaxSpike + 1)]]]

\* The centres of the b time bins of each of n trials, in milliseconds.
SampleTime(n, b) == [t \in 1 .. n |-> [j \in 1 .. b |-> 1000 * t + 10 * j + 5]]

Session(sn, cl, cr, fb, brain_area, spks, time) ==
    [contrast_left |-> Wrap(sn, cl),
     contrast_right |-> Wrap(sn, cr),
     feedback_type |-> Wrap(sn, fb),
     mouse_name |-> <<MouseOfSession(sn)>>,
     brain_area |-> brain_area,
     date_exp |-> <<DateOfSession(sn)>>,
     spks |-> spks,
     time |-> time]

SampleLeft(n) == [i \in 1 .. n |-> IF i % 2 = 1 THEN 100 ELSE 0]
SampleRight(n) == [i \in 1 .. n |-> 50]
SampleFeedback(n) == [i \in 1 .. n |-> IF i % 2 = 1 THEN 1 ELSE -1]

\* Sessions that differ in their contrasts.
ContrastSessions(sn) ==
    UNION {
        {Session(sn, cl, cr, SampleFeedback(n), <<"root">>,
                 SampleSpikes(n, <<1>>, 1), SampleTime(n, 1)) :
            cl \in [1 .. n -> ContrastLevels], cr \in [1 .. n -> ContrastLevels]} :
        n \in 1 .. MaxTrials}

\* Sessions that differ in their feedback.
FeedbackSessions(sn) ==
    {Session(sn, SampleLeft(Len(fb)), SampleRight(Len(fb)), fb, <<"root">>,
             SampleSpikes(Len(fb), <<1>>, 1), SampleTime(Len(fb), 1)) :
        fb \in UNION {[1 .. n -> Feedbacks] : n \in 1 .. MaxTrials}}

\* Sessions that differ in their neurons, brain areas, bins and spike counts.
SpikeSessions(sn) ==
    UNION {
        {Session(sn, SampleLeft(n), SampleRight(n), SampleFeedback(n), area,
                 SampleSpikes(n, rate, b), SampleTime(n, b)) :
            area \in [1 .. k -> Range(AreaOrder)],
            rate \in [1 .. k -> 0 .. MaxSpike]} :
        n \in 1 .. MaxTrials, k \in 1 .. MaxNeurons, b \in 1 .. MaxBins}

\* The session of the file of session number sn.
SessionOfFile(sn) ==
    Session(sn, SampleLeft(MaxTrials), SampleRight(MaxTrials), SampleFeedback(MaxTrials),
            <<"root", "ACA">>, SampleSpikes(MaxTrials, <<0, 1>>, MaxBins),
            SampleTime(MaxTrials, MaxBins))

NoSession == Session(0, <<>>, <<>>, <<>>, <<>>, <<>>, <<>>)

(***************************************************************************)
(* The state machine                                                       *)
(***************************************************************************)
NoArray == Array1(<<>>)

\* A Mouse object before __init__ has set anything; set names the attributes
\* that have been assigned.
NewObject ==
    [set |-> {},
     session_number |-> IntArg(0),
     mouse_name |-> "",
     date_exp |-> [year |-> 0, month |-> 0, day |-> 0],
     contrast_left |-> NoArray,
     contrast_right |-> NoArray,
     feedback_type |-> NoArray,
     spikes |-> [keys |-> <<>>, vals |-> <<>>],
     time |-> [index |-> <<>>, columns |-> <<>>, values |-> <<>>],
     trials |-> 0,
     list_of_trials |-> <<>>,
     time_bins |-> 0,
     brain_areas |-> {},
     decisions |-> NoArray,
     model_features |-> [columns |-> <<>>, values |-> <<>>, category |-> {}, filled |-> {}]]

Assign(obj, name, value) == [obj EXCEPT ![name] = value, !.set = @ \cup {name}]

NoCall ==
    [op |-> "", arg |-> NoneArg, outcome |-> "", printed |-> <<>>, read |-> <<>>,
     data |-> NoValue, result |-> NoValue]

CallRecord(op, arg, r) ==
    [op |-> op, arg |-> arg, outcome |-> r.outcome, printed |-> r.printed,
     read |-> r.read, data |-> r.data, result |-> r.result]

LogEntry(c) ==
    [op |-> c.op, outcome |-> c.outcome, read |-> c.read, data |-> c.data,
     result |-> c.result]

\* The process starts with the conversion switch off and nothing loaded.
Init ==
    /\ pandas2ri_active = FALSE
    /\ cran_mirror = 0
    /\ call = NoCall
    /\ log = <<>>
    /\ session = NoSession
    /\ self = NewObject
    /\ pc = "idle"

\* A call get_session_file(x) from the top level.
GetSessionFile(x) ==
    /\ pc = "idle"
    /\ Len(log) < MaxCalls
    /\ LET r == get_session_file(x, pandas2ri_active, cran_mirror) IN
        /\ pandas2ri_active' = r.active
        /\ cran_mirror' = r.mirror
        /\ call' = CallRecord("get_session_file", x, r)
        /\ log' = Append(log, LogEntry(call'))
    /\ UNCHANGED <<session, self, pc>>

\* The exception of a call that Python cannot bind to the function.
BindError ==
    [outcome |-> "TypeError", printed |-> <<>>, read |-> <<>>, data |-> NoValue,
     result |-> NoValue]

\* Lines 34-48 of __init__ on the session s.
Construct(obj, s) ==
    LET o1 == Assign(obj, "mouse_name", get_name(s))
        o2 == Assign(o1, "date_exp", get_date(s))
        o3 == Assign(o2, "contrast_left", get_contrast_left(s))
        o4 == Assign(o3, "contrast_right", get_contrast_right(s))
        o5 == Assign(o4, "feedback_type", get_feedback_type(s))
        o6 == Assign(o5, "spikes", get_spikes(s))
        o7 == Assign(o6, "time", get_time(s))
        o8 == Assign(o7, "trials", PyLen(o7.feedback_type))
        o9 == Assign(o8, "list_of_trials", [i \in 1 .. o8.trials |-> TrialLabel(i - 1)])
        o10 == Assign(o9, "time_bins", Len(o9.time.columns))
        o11 == Assign(o10, "brain_areas", Range(s.brain_area))
        o12 == Assign(o11, "decisions", get_decisions(o11.contrast_left, o11.contrast_right))
    IN  Assign(o12, "model_features", get_model_features(o12))

\* Mouse(x, test): line 32 stores the session number, line 33 loads the
\* session, lines 34-48 derive the other attributes from what was loaded
\* (an empty list has no element 3: line 34 raises IndexError).
MouseInit(x, test) ==
    /\ pc = "idle"
    /\ Len(log) < MaxCalls
    /\ IF ~Binds(get_session_file_params, init_call_args(x, test)) THEN
          /\ call' = CallRecord("Mouse", x, BindError)
          /\ self' = Assign(NewObject, "session_number", x)
          /\ UNCHANGED <<pandas2ri_active, cran_mirror, session>>
       ELSE
          LET r == get_session_file(x, pandas2ri_active, cran_mirror)
              obj == Assign(Assign(NewObject, "session_number", x), "session", x)
          IN
          /\ pandas2ri_active' = r.active
          /\ cran_mirror' = r.mirror
          /\ IF r.outcome # "return" THEN
                /\ call' = CallRecord("Mouse", x, r)
                /\ self' = Assign(NewObject, "session_number", x)
                /\ UNCHANGED session
             ELSE IF r.result.kind = "list" THEN
                /\ call' = CallRecord("Mouse", x, [r EXCEPT !.outcome = "IndexError"])
                /\ self' = obj
                /\ UNCHANGED session
             ELSE
                /\ call' = CallRecord("Mouse", x, r)
                /\ session' = SessionOfFile(PyInt(x).v)
                /\ self' = Construct(obj, session')
    /\ log' = Append(log, LogEntry(call'))
    /\ UNCHANGED pc

Next ==
    \/ \E x \in Args : GetSessionFile(x)
    \/ \E x \in IntArgs, test \in BOOLEAN : MouseInit(x, test)

Spec == Init /\ [][Next]_vars

(***************************************************************************)
(* The methods of Mouse on a loaded session, in the order of lines 34-48   *)
(* of __init__.  InitMouse is the object once lines 32-33 have stored the  *)
(* session number and bound self.session to a session value.               *)
(***************************************************************************)
SessionNumbers == {1, 2}

InitMouse ==
    /\ pandas2ri_active = TRUE
    /\ cran_mirror = 1
    /\ call = NoCall
    /\ log = <<>>
    /\ \E sn \in SessionNumbers :
        /\ session \in ContrastSessions(sn) \cup FeedbackSessions(sn) \cup SpikeSessions(sn)
        /\ self = Assign(Assign(NewObject, "session_number", IntArg(sn)), "session", IntArg(sn))
    /\ pc = "34"

Step(line, next, name, value) ==
    /\ pc = line
    /\ self' = Assign(self, name, value)
    /\ pc' = next
    /\ UNCHANGED <<pandas2ri_active, cran_mirror, call, log, session>>

GetName == Step("34", "35", "mouse_name", get_name(session))

GetDate == Step("35", "36", "date_exp", get_date(session))

GetContrastLeft == Step("36", "37", "contrast_left", get_contrast_left(session))

GetContrastRight == Step("37", "38", "contrast_right", get_contrast_right(session))

GetFeedbackType == Step("38", "39", "feedback_type", get_feedback_type(session))

GetSpikes == Step("39", "40", "spikes", get_spikes(session))

GetTime == Step("40", "42", "time", get_time(session))

\* Lines 42-45: trials, list_of_trials, time_bins and brain_areas.
OtherAttributes ==
    /\ pc = "42"
    /\ LET trials == PyLen(self.feedback_type)
           o1 == Assign(self, "trials", trials)
           o2 == Assign(o1, "list_of_trials", [i \in 1 .. trials |-> TrialLabel(i - 1)])
           o3 == Assign(o2, "time_bins", Len(self.time.columns))
       IN  self' = Assign(o3, "brain_areas", Range(session.brain_area))
    /\ pc' = "47"
    /\ UNCHANGED <<pandas2ri_active, cran_mirror, call, log, session>>

GetDecisions ==
    Step("47", "48", "decisions", get_decisions(self.contrast_left, self.contrast_right))

GetModelFeatures == Step("48", "done", "model_features", get_model_features(self))

NextMouse ==
    \/ GetName
    \/ GetDate
    \/ GetContrastLeft
    \/ GetContrastRight
    \/ GetFeedbackType
    \/ GetSpikes
    \/ GetTime
    \/ OtherAttributes
    \/ GetDecisions
    \/ GetModelFeatures

SpecMouse == InitMouse /\ [][NextMouse]_vars

(***************************************************************************)
(* Properties of the Mouse methods (checked under SpecMouse)               *)
(***************************************************************************)
Trials == DOMAIN session.feedback_type

TrialLeft(i) == session.contrast_left[i].items[1]

TrialRight(i) == session.contrast_right[i].items[1]

TrialFeedback(i) == session.feedback_type[i].items[1]

DecisionRule(l, r) ==
    CASE l > r -> 1
      [] l < r -> 2
      [] l = 0 /\ r = 0 -> 3
      [] OTHER -> 4

\* C1: _get_decisions gives every trial exactly one label of {1,2,3,4}, in
\* trial order: 1 when the left contrast of the trial is the greater, 2 when
\* it is the smaller, 3 when both are 0 and 4 when they are equal and not 0.
\* (The labels come in the shape of the contrast arrays; C2 is about the shape.)
C1_DecisionLabels ==
    "decisions" \in self.set =>
        /\ DOMAIN self.decisions.flat = Trials
        /\ \A i \in Trials :
            /\ self.decisions.flat[i] \in {1, 2, 3, 4}
            /\ self.decisions.flat[i] = DecisionRule(TrialLeft(i), TrialRight(i))

C1_Witness ==
    /\ "decisions" \in self.set
    /\ \E i, j \in Trials :
        /\ TrialLeft(i) = 0 /\ TrialRight(i) = 0 /\ self.decisions.flat[i] = 3
        /\ TrialLeft(j) = 50 /\ TrialRight(j) = 50 /\ self.decisions.flat[j] = 4

IsFlat(a, field) ==
    /\ a.shape = <<Len(field)>>
    /\ \A i \in DOMAIN field : a.flat[i] = field[i].items[1]

\* C2: for both encodings of the session, _get_contrast_left,
\* _get_contrast_right and _get_feedback_type each return a one-dimensional
\* array with one scalar per trial, in trial order.
C2_FlatFields ==
    /\ "contrast_left" \in self.set => IsFlat(self.contrast_left, session.contrast_left)
    /\ "contrast_right" \in self.set => IsFlat(self.contrast_right, session.contrast_right)
    /\ "feedback_type" \in self.set => IsFlat(self.feedback_type, session.feedback_type)

NeuronsIn(a) == Indices(session.brain_area, a)

\* The spikes of the neurons of area a over all the bins of trial t.
AreaTotal(a, t) ==
    SumAt([r \in DOMAIN session.brain_area |-> SumSeq(session.spks[t][r])], NeuronsIn(a))

FeatureCell(t, column) ==
    self.model_features.values[t][
        CHOOSE c \in DOMAIN self.model_features.columns :
            self.model_features.columns[c] = column]

IsLabel(label, prefix, n) ==
    /\ Len(label) > 1
    /\ label[1] = prefix
    /\ IsDigits(Tail(label))
    /\ label[2] # "0"
    /\ DigitsValue(Tail(label)) = n

\* C8: _get_spikes returns one table per trial, keyed "Trial 1" .. "Trial n"
\* in input order; a table has one row per neuron, labelled with the brain
\* area of the neuron, one column per time bin, named "Time Bin 1" ..
\* "Time Bin k" in order, and its cell (r, j) is the spike count of neuron r
\* in bin j of the trial.
C8_SpikeTables ==
    "spikes" \in self.set =>
        /\ DOMAIN self.spikes.keys = DOMAIN session.spks
        /\ DOMAIN self.spikes.vals = DOMAIN session.spks
        /\ \A t \in DOMAIN session.spks :
            LET table == self.spikes.vals[t] IN
            /\ IsLabel(self.spikes.keys[t], "Trial ", t)
            /\ table.index = session.brain_area
            /\ DOMAIN table.values = DOMAIN session.brain_area
            /\ \A r \in DOMAIN table.values :
                /\ DOMAIN table.values[r] = DOMAIN table.columns
                /\ DOMAIN table.columns = DOMAIN session.spks[t][r]
                /\ \A j \in DOMAIN table.columns :
                    /\ IsLabel(table.columns[j], "Time Bin ", j)
                    /\ table.values[r][j] = session.spks[t][r][j]

C8_Witness ==
    /\ "spikes" \in self.set
    /\ Len(self.spikes.keys) > 1
    /\ Len(session.brain_area) > 1
    /\ session.brain_area[1] = session.brain_area[2]
    /\ Len(self.spikes.vals[1].columns) > 1
    /\ self.spikes.vals[1].values[1] # self.spikes.vals[2].values[1]
    /\ self.spikes.vals[1].values[1][1] # self.spikes.vals[1].values[1][2]

(***************************************************************************)
(* Properties of the loader and of Mouse.__init__ (checked under Spec)     *)
(***************************************************************************)
\* The path p is data/session<n>.rds.
NamesSession(p, n) ==
    /\ Len(p) > 2
    /\ p[1] = "data/session"
    /\ p[Len(p)] = ".rds"
    /\ LET digits == SubSeq(p, 2, Len(p) - 1) IN
        /\ IsDigits(digits)
        /\ digits[1] # "0"
        /\ DigitsValue(digits) = n

Rejected(c) ==
    /\ c.outcome = "return"
    /\ c.result = EmptyList
    /\ c.read = <<>>

\* The call c read the file of session n, that file only, and returned its
\* converted content.
Loaded(c, n) ==
    /\ c.outcome = "return"
    /\ Len(c.read) = 1
    /\ NamesSession(c.read[1], n)
    /\ c.result.kind = "data"
    /\ c.result.path = c.read[1]
    /\ c.result.form = "python"

NotAnInteger(x) ==
    \/ x.t \in {"NoneType", "nan", "inf"}
    \/ x.t = "float" /\ x.i % 10 # 0
    \/ x.t = "str" /\ ~IsDigits(x.s)

\* C6: get_session_file rejects every argument that is not an integer: it
\* prints "Session must be an integer", returns an empty list, raises no
\* exception and reads no file.
C6_NonIntegerRejected ==
    (call.op = "get_session_file" /\ NotAnInteger(call.arg)) =>
        /\ Rejected(call)
        /\ call.printed = <<MsgNotInteger>>

\* A session number that get_session_file accepts.
Accepted(x) == PyInt(x).exc = "" /\ ~OutOfRange(PyInt(x).v)

DerivedAttributes ==
    {"session", "mouse_name", "date_exp", "contrast_left", "contrast_right",
     "feedback_type", "spikes", "time", "trials", "list_of_trials", "time_bins",
     "brain_areas", "decisions", "model_features"}

\* C7: Mouse(session) with a session number that get_session_file accepts
\* loads that session through get_session_file and completes: the call of
\* __init__ is one the function accepts, session_number is the argument and
\* the derived attributes get set.
C7_MouseConstructed ==
    (call.op = "Mouse" /\ Accepted(call.arg)) =>
        /\ Loaded(call, PyInt(call.arg).v)
        /\ self.session_number = call.arg
        /\ DerivedAttributes \subseteq self.set

\* C9: nothing is kept between loads: every call of get_session_file and
\* every Mouse construction for an accepted session reads the session file
\* again, no load observes a state that an earlier call has changed, and two
\* loads of the same file return equal results.
C9_NothingKept ==
    /\ (call.op # "" /\ Accepted(call.arg)) => Len(call.read) = 1
    /\ \A i \in DOMAIN log : log[i].read # <<>> => log[i].data.form = "robject"
    /\ \A i, j \in DOMAIN log :
        (log[i].read # <<>> /\ log[i].read = log[j].read) => log[i].result = log[j].result

====
